---- MODULE Spec2Model ----
(***************************************************************************)
(* format-aliases: the alias line parser (nom combinators of src/main.rs)  *)
(* and the driver/presenter loop of format_aliases.                        *)
(*                                                                         *)
(* Text is modelled as a sequence of Unicode code points, so that Rust's   *)
(* String ordering (bytewise on UTF-8, which is code point order) is the   *)
(* lexicographic order on these sequences.                                 *)
(***************************************************************************)
EXTENDS Naturals, Sequences, FiniteSets

\* ------------------------------------------------------------ characters

\* '=' : the character parse_name stops at and the tag of parse_alias
EQ == 61
\* '\'' and '"' : the delimiters of parse_between_quotes
SQ == 39
DQ == 34
\* ' ' : the separator of join(" ") and the indent of the printed lines
SP == 32
\* form feed: char::is_whitespace holds of it, nom's multispace1 does not take it
FF == 12
\* line feed: read_line keeps the terminator in the buffer
LF == 10
\* ESC and '[' : the ANSI escape introducer of the colour codes
ESC == 27
LB == 91
\* ']' closes a header
RB == 93

\* char::is_whitespace: the code points with the Unicode White_Space property
WhiteSpace ==
    {9, 10, 11, 12, 13, 32, 133, 160, 5760, 8232, 8233, 8239, 8287, 12288}
        \cup (8192 .. 8202)

\* nom::character::complete::multispace1: space, tab, carriage return, line feed
Multispace == {32, 9, 13, 10}

\* the characters parse_token's take_while1 stops at
TokenStop == {SQ, DQ} \cup WhiteSpace

\* ------------------------------------------------------------ text helpers

\* position of the first character of s that is in S, Len(s)+1 when none is
FirstIn(s, S) ==
    IF \E i \in 1 .. Len(s) : s[i] \in S
    THEN CHOOSE i \in 1 .. Len(s) : s[i] \in S /\ \A j \in 1 .. (i - 1) : s[j] \notin S
    ELSE Len(s) + 1

\* position of the first character of s that is not in S, Len(s)+1 when none is
FirstNotIn(s, S) ==
    IF \E i \in 1 .. Len(s) : s[i] \notin S
    THEN CHOOSE i \in 1 .. Len(s) : s[i] \notin S /\ \A j \in 1 .. (i - 1) : s[j] \in S
    ELSE Len(s) + 1

\* position of the last character of s that is not in S, 0 when none is
LastNotIn(s, S) ==
    IF \E i \in 1 .. Len(s) : s[i] \notin S
    THEN CHOOSE i \in 1 .. Len(s) : s[i] \notin S /\ \A j \in (i + 1) .. Len(s) : s[j] \in S
    ELSE 0

\* the suffix of s from position i on
From(s, i) == SubSeq(s, i, Len(s))

\* str::trim: leading and trailing White_Space removed
Trim(s) == SubSeq(s, FirstNotIn(s, WhiteSpace), LastNotIn(s, WhiteSpace))

\* String::cmp: lexicographic by code point, a proper prefix first
StrLess(a, b) ==
    \E i \in 1 .. (Len(b)) :
        /\ i <= Len(a) + 1
        /\ \A j \in 1 .. (i - 1) : a[j] = b[j]
        /\ (i = Len(a) + 1 \/ a[i] < b[i])

RECURSIVE Join(_, _)
\* [String]::join(sep)
Join(toks, sep) ==
    IF Len(toks) = 0 THEN << >>
    ELSE IF Len(toks) = 1 THEN toks[1]
    ELSE toks[1] \o sep \o Join(Tail(toks), sep)

\* ------------------------------------------------------------ the line parser

\* IResult: Ok((rest, out)) or Err
Ok(rest, out) == [ok |-> TRUE, rest |-> rest, out |-> out]
Err == [ok |-> FALSE, rest |-> << >>, out |-> << >>]

\* nom tag of one character
tag(c, input) ==
    IF Len(input) >= 1 /\ input[1] = c THEN Ok(Tail(input), <<c>>) ELSE Err

\* take_till1(|c| c == '=')
parse_name(input) ==
    LET n == FirstIn(input, {EQ}) - 1
    IN  IF n >= 1 THEN Ok(From(input, n + 1), SubSeq(input, 1, n)) ELSE Err

\* a token that stops only at whitespace (the quote test of take_while1 dropped)
parse_token_quotes(input) ==
    LET n == FirstIn(input, WhiteSpace) - 1
    IN  IF n >= 1 THEN Ok(From(input, n + 1), SubSeq(input, 1, n)) ELSE Err

\* take_while1(|c| c != '\'' && c != '"' && !c.is_whitespace())
parse_token(input) ==
    LET n == FirstIn(input, TokenStop) - 1
    IN  IF n >= 1 THEN Ok(From(input, n + 1), SubSeq(input, 1, n)) ELSE Err

\* multispace1
multispace1(input) ==
    LET n == FirstNotIn(input, Multispace) - 1
    IN  IF n >= 1 THEN Ok(From(input, n + 1), SubSeq(input, 1, n)) ELSE Err

RECURSIVE separated_list1_loop(_, _)
\* the loop of separated_list1: a separator that fails, or an element that
\* fails after a separator, ends the list before that separator
separated_list1_loop(i, res) ==
    LET s == multispace1(i)
    IN  IF ~s.ok THEN Ok(i, res)
        ELSE LET t == parse_token(s.rest)
             IN  IF ~t.ok THEN Ok(i, res)
                 ELSE separated_list1_loop(t.rest, Append(res, t.out))

\* separated_list1(multispace1, parse_token)
parse_whitespace_separated(input) ==
    LET t == parse_token(input)
    IN  IF ~t.ok THEN Err ELSE separated_list1_loop(t.rest, <<t.out>>)

\* a quoted value whose closing delimiter is not asked for
delimited_unclosed(q, input) ==
    LET open == tag(q, input)
    IN  IF ~open.ok THEN Err ELSE parse_whitespace_separated(open.rest)

\* delimited(tag(q), parse_whitespace_separated, tag(q))
delimited(q, input) ==
    LET open == tag(q, input)
    IN  IF ~open.ok THEN Err
        ELSE LET body == parse_whitespace_separated(open.rest)
             IN  IF ~body.ok THEN Err
                 ELSE LET close == tag(q, body.rest)
                      IN  IF ~close.ok THEN Err ELSE Ok(close.rest, body.out)

\* alt((delimited by '"', delimited by '\''))
parse_between_quotes(input) ==
    LET d == delimited(DQ, input)
    IN  IF d.ok THEN d ELSE delimited(SQ, input)

\* alt((parse_between_quotes, parse_whitespace_separated))
parse_value(input) ==
    LET q == parse_between_quotes(input)
    IN  IF q.ok THEN q ELSE parse_whitespace_separated(input)

\* Alias::new
NewAlias(name, value) == [name |-> name, value |-> value]

\* separated_pair(parse_name, tag("="), parse_value) mapped to Alias::new
parse_alias(input) ==
    LET n == parse_name(input)
    IN  IF ~n.ok THEN Err
        ELSE LET e == tag(EQ, n.rest)
             IN  IF ~e.ok THEN Err
                 ELSE LET v == parse_value(e.rest)
                      IN  IF ~v.ok THEN Err
                          ELSE Ok(v.rest, NewAlias(n.out, v.out))

\* ------------------------------------------------------------ the grouper

\* Aliases::new: no bucket
NoBuckets == [k \in {} |-> << >>]

\* a grouper keyed by the alias name instead of the first token of the value
Push_by_name(m, alias) ==
    LET k == alias.name
    IN  [x \in DOMAIN m \cup {k} |->
            IF x = k THEN (IF k \in DOMAIN m THEN Append(m[k], alias) ELSE <<alias>>)
            ELSE m[x]]

\* Aliases::push: entry(value[0]).or_insert_with(Vec::new).push(alias)
Push(m, alias) ==
    LET k == alias.value[1]
    IN  [x \in DOMAIN m \cup {k} |->
            IF x = k THEN (IF k \in DOMAIN m THEN Append(m[k], alias) ELSE <<alias>>)
            ELSE m[x]]

\* ------------------------------------------------------------ the presenter

\* Ord for Alias: by name alone
AliasLess(a, b) == StrLess(a.name, b.name)

\* x put behind the last element of the sorted s that is not greater than it
InsertSorted(s, x) ==
    LET p == Cardinality({i \in 1 .. Len(s) : ~AliasLess(x, s[i])})
    IN  SubSeq(s, 1, p) \o <<x>> \o SubSeq(s, p + 1, Len(s))

\* a sort left out: the aliases stay in insertion order
SortAliases_unsorted(s) == s

RECURSIVE SortAliases(_)
\* slice::sort: stable, by Ord::cmp
SortAliases(s) ==
    IF Len(s) <= 1 THEN s
    ELSE InsertSorted(SortAliases(SubSeq(s, 1, Len(s) - 1)), s[Len(s)])

\* the escape sequences of colorized::Colors
YellowFg == <<ESC, LB, 51, 51, 109>>
GreenFg == <<ESC, LB, 51, 50, 109>>
BrightBlackFg == <<ESC, LB, 57, 48, 109>>
Reset == <<ESC, LB, 48, 109>>

\* Colorize::color: the colour's code, the text, the reset code
Color(text, code) == code \o text \o Reset

\* a display that colours the name whatever in_color says
Display_coloured(alias, colour) ==
    Color(alias.name, GreenFg) \o <<EQ, SQ>> \o Join(alias.value, <<SP>>) \o <<SQ>>

\* a display that joins the tokens without the space between them
Display_unspaced(alias, colour) ==
    alias.name \o <<EQ, SQ>> \o Join(alias.value, << >>) \o <<SQ>>

\* Alias::display
Display(alias, colour) ==
    (IF colour THEN Color(alias.name, GreenFg) ELSE alias.name)
        \o <<EQ, SQ>> \o Join(alias.value, <<SP>>) \o <<SQ>>

\* the titles of the two fixed headers: "general" and "unparsable"
General == <<103, 101, 110, 101, 114, 97, 108>>
Unparsable == <<117, 110, 112, 97, 114, 115, 97, 98, 108, 101>>

NoAlias == [name |-> << >>, value |-> << >>]

\* one line written to a stream; kind, title and alias tell what the text shows
OutLine(stream, kind, title, alias, text) ==
    [stream |-> stream, kind |-> kind, title |-> title, alias |-> alias, text |-> text]

\* print_header: println!("[{}]", title) with the title coloured when a colour is given
HeaderLine(kind, title, code) ==
    OutLine("stdout", kind, title, NoAlias,
            <<LB>> \o (IF code = << >> THEN title ELSE Color(title, code)) \o <<RB>>)

\* println!("  {}", alias.display(in_color))
AliasLine(alias, colour) ==
    OutLine("stdout", "alias", << >>, alias, <<SP, SP>> \o Display(alias, colour))

\* println!("")
BlankLine == OutLine("stdout", "blank", << >>, NoAlias, << >>)

\* eprintln!("  {}", alias) of a rejected line
RawLine(text) == OutLine("stderr", "raw", << >>, NoAlias, <<SP, SP>> \o text)

\* the lines of s, each mapped to its alias line
AliasLines(s, colour) == [i \in 1 .. Len(s) |-> AliasLine(s[i], colour)]

\* ------------------------------------------------------------ the driver

VARIABLES
    in_color,         \* the flag main passes to format_aliases
    pc,               \* where format_aliases is
    consumed,         \* the lines read from standard input so far, without terminator
    line,             \* the trimmed line of the current iteration
    aliases,          \* Aliases.aliases: first token -> the aliases pushed under it
    error_aliases,    \* the rejected lines
    general_aliases,  \* the aliases of the buckets of size one, in iteration order
    visited,          \* the keys iter_mut has yielded
    out               \* the lines written to standard output and standard error

vars ==
    <<in_color, pc, consumed, line, aliases, error_aliases, general_aliases, visited, out>>

Init ==
    /\ in_color \in BOOLEAN
    /\ pc = "read"
    /\ consumed = << >>
    /\ line = << >>
    /\ aliases = NoBuckets
    /\ error_aliases = << >>
    /\ general_aliases = << >>
    /\ visited = {}
    /\ out = << >>

\* a blank test that never holds
IsBlank_never(l) == FALSE

\* line.is_empty() of the trimmed line
IsBlank(l) == l = << >>

\* a rejected line put in front of the list
Reject_front(errs, l) == <<l>> \o errs

\* error_aliases.push(line.to_string())
Reject(errs, l) == Append(errs, l)

\* one iteration of the read loop on the line raw: read_line keeps the line feed,
\* trim removes it; a blank line is skipped, a parsed one pushed, a rejected one kept
ReadLine(raw) ==
    /\ pc = "read"
    /\ consumed' = Append(consumed, raw)
    /\ line' = Trim(raw \o <<LF>>)
    /\ IF IsBlank(line')
       THEN UNCHANGED <<pc, aliases, error_aliases>>
       ELSE LET r == parse_alias(line')
            IN  IF r.ok
                THEN IF Len(r.out.value) = 0
                     THEN /\ pc' = "panic"
                          /\ UNCHANGED <<aliases, error_aliases>>
                     ELSE /\ aliases' = Push(aliases, r.out)
                          /\ UNCHANGED <<pc, error_aliases>>
                ELSE /\ error_aliases' = Reject(error_aliases, line')
                     /\ UNCHANGED <<pc, aliases>>
    /\ UNCHANGED <<in_color, general_aliases, visited, out>>

\* read_line returns 0: the loop ends
ReadEof ==
    /\ pc = "read"
    /\ pc' = "groups"
    /\ UNCHANGED <<in_color, consumed, line, aliases, error_aliases, general_aliases,
                   visited, out>>

\* read_line returns Err: the ? operator returns it from format_aliases
ReadError ==
    /\ pc = "read"
    /\ pc' = "io_error"
    /\ UNCHANGED <<in_color, consumed, line, aliases, error_aliases, general_aliases,
                   visited, out>>

\* an iteration that prints a bucket of one alias at once, under its own
\* general header, instead of keeping it for the end
IterBucket_inline(k) ==
    /\ pc = "groups"
    /\ k \in DOMAIN aliases \ visited
    /\ visited' = visited \cup {k}
    /\ LET sorted == SortAliases(aliases[k])
       IN  /\ aliases' = [aliases EXCEPT ![k] = sorted]
           /\ out' = out
                   \o <<IF Len(aliases[k]) = 1
                        THEN HeaderLine("general_header", General,
                                        IF in_color THEN YellowFg ELSE << >>)
                        ELSE HeaderLine("group_header", k,
                                        IF in_color THEN YellowFg ELSE << >>)>>
                   \o AliasLines(sorted, in_color)
                   \o <<BlankLine>>
    /\ UNCHANGED <<in_color, pc, consumed, line, error_aliases, general_aliases>>

\* one iteration of the loop over aliases.aliases.iter_mut(), on a key the hash
\* map's order yields next: a bucket of one alias is kept for the general group,
\* any other is sorted in place and printed
IterBucket(k) ==
    /\ pc = "groups"
    /\ k \in DOMAIN aliases \ visited
    /\ visited' = visited \cup {k}
    /\ IF Len(aliases[k]) = 1
       THEN /\ general_aliases' = Append(general_aliases, aliases[k][1])
            /\ UNCHANGED <<aliases, out>>
       ELSE LET sorted == SortAliases(aliases[k])
            IN  /\ aliases' = [aliases EXCEPT ![k] = sorted]
                /\ out' = out
                        \o <<HeaderLine("group_header", k,
                                        IF in_color THEN YellowFg ELSE << >>)>>
                        \o AliasLines(sorted, in_color)
                        \o <<BlankLine>>
                /\ UNCHANGED general_aliases
    /\ UNCHANGED <<in_color, pc, consumed, line, error_aliases>>

\* the iterator is exhausted
EndGroups ==
    /\ pc = "groups"
    /\ visited = DOMAIN aliases
    /\ pc' = "general"
    /\ UNCHANGED <<in_color, consumed, line, aliases, error_aliases, general_aliases,
                   visited, out>>

\* the general group: its header, its aliases sorted, a blank line
PrintGeneral ==
    /\ pc = "general"
    /\ pc' = "unparsable"
    /\ IF general_aliases # << >>
       THEN LET sorted == SortAliases(general_aliases)
            IN  /\ general_aliases' = sorted
                /\ out' = out
                        \o <<HeaderLine("general_header", General,
                                        IF in_color THEN YellowFg ELSE << >>)>>
                        \o AliasLines(sorted, in_color)
                        \o <<BlankLine>>
       ELSE UNCHANGED <<general_aliases, out>>
    /\ UNCHANGED <<in_color, consumed, line, aliases, error_aliases, visited>>

\* the unparsable group: its header on standard output, the rejected lines on
\* standard error; then Ok(())
PrintUnparsable ==
    /\ pc = "unparsable"
    /\ pc' = "done"
    /\ IF error_aliases # << >>
       THEN out' = out
                \o <<HeaderLine("unparsable_header", Unparsable,
                                IF in_color THEN BrightBlackFg ELSE << >>)>>
                \o [i \in 1 .. Len(error_aliases) |-> RawLine(error_aliases[i])]
       ELSE UNCHANGED out
    /\ UNCHANGED <<in_color, consumed, line, aliases, error_aliases, general_aliases,
                   visited>>

\* the steps after the read loop
Present ==
    \/ \E k \in DOMAIN aliases : IterBucket(k)
    \/ EndGroups
    \/ PrintGeneral
    \/ PrintUnparsable

\* ------------------------------------------------------------ inputs and bounds

\* the most lines a run of Spec reads
MaxLines == 4

\* the longest line a run of SpecLine reads
MaxLen == 6

\* the lines a run of Spec draws from: a, b and ESC [ name aliases of the
\* commands c and d, bare and quoted; one line is blank and two are no alias
InputLines ==
    { <<98, 61, 99>>,                       \* b=c
      <<97, 61, 100>>,                      \* a=d
      <<97, 61, 39, 99, 32, 100, 39>>,      \* a='c d'
      <<32, 98, 61, 34, 100, 34, 32>>,      \* ' b="d" '
      <<32, 12>>,                           \* a space and a form feed
      <<97, 32, 98>>,                       \* a b
      <<27, 91, 109>>,                      \* ESC [ m
      <<27, 91, 61, 99>> }                  \* ESC [ =c

\* the characters a line of SpecLine is made of
Alphabet == {97, EQ, SQ, DQ, SP, FF}

\* every text over Alphabet of at most n characters
Strings(n) == UNION {[1 .. k -> Alphabet] : k \in 0 .. n}

\* a run on at most MaxLines lines of InputLines
Next ==
    \/ pc = "read" /\ Len(consumed) < MaxLines /\ \E raw \in InputLines : ReadLine(raw)
    \/ ReadEof
    \/ ReadError
    \/ Present

Spec == Init /\ [][Next]_vars

\* a run on at most one line, any text of at most MaxLen characters
NextLine ==
    \/ pc = "read" /\ consumed = << >> /\ \E raw \in Strings(MaxLen) : ReadLine(raw)
    \/ ReadEof
    \/ ReadError
    \/ Present

SpecLine == Init /\ [][NextLine]_vars

\* ------------------------------------------------------------ reference notions

Quotes == {SQ, DQ}

\* every alias the grouper holds, bucket by bucket
HeldAliases ==
    UNION {{aliases[k][i] : i \in 1 .. Len(aliases[k])} : k \in DOMAIN aliases}

RECURSIVE SumLen(_, _)
\* the sizes of the buckets of m with keys in K, summed
SumLen(m, K) ==
    IF K = {} THEN 0
    ELSE LET k == CHOOSE x \in K : TRUE
         IN  Len(m[k]) + SumLen(m, K \ {k})

\* the line was rejected: it is the one rejected line and no alias is held
LineRejected == error_aliases = <<line>> /\ DOMAIN aliases = {}

\* the line was accepted: one alias is held and nothing was rejected
LineAccepted == error_aliases = << >> /\ SumLen(aliases, DOMAIN aliases) = 1

\* the line has a '=': a name part before the first one, a value part after it
HasValuePart(l) == FirstIn(l, {EQ}) <= Len(l)
NamePart(l) == SubSeq(l, 1, FirstIn(l, {EQ}) - 1)
ValuePart(l) == From(l, FirstIn(l, {EQ}) + 1)

\* v is wrapped in one pair of equal quote characters
OuterPair(v) == Len(v) >= 2 /\ v[1] \in Quotes /\ v[Len(v)] = v[1]

\* v holds a quote character other than one pair of outer delimiters
EmbeddedQuote(v) ==
    LET at == {i \in 1 .. Len(v) : v[i] \in Quotes}
    IN  IF OuterPair(v) THEN at # {1, Len(v)} ELSE at # {}

\* t, a text without quotes, is tokens separated by runs of the characters in seps
TokenText(t, seps) ==
    /\ t # << >>
    /\ \A i \in 1 .. Len(t) : t[i] \notin Quotes
    /\ t[1] \notin WhiteSpace
    /\ t[Len(t)] \notin WhiteSpace
    /\ \A i \in 1 .. Len(t) : t[i] \in WhiteSpace => t[i] \in seps

RECURSIVE SplitWhitespace(_)
\* the maximal runs of non-whitespace characters of t, in order
SplitWhitespace(t) ==
    LET u == From(t, FirstNotIn(t, WhiteSpace))
    IN  IF u = << >> THEN << >>
        ELSE LET n == FirstIn(u, WhiteSpace)
             IN  <<SubSeq(u, 1, n - 1)>> \o SplitWhitespace(From(u, n))

\* v opens with a quote, and the text up to the next quote character is tokens
\* separated by multispace runs, closed by the quote that opened it
ClosedQuoted(v) ==
    LET w == Tail(v)
        n == FirstIn(w, Quotes)
    IN  /\ n <= Len(w)
        /\ w[n] = v[1]
        /\ TokenText(SubSeq(w, 1, n - 1), Multispace)

\* the value part v does not begin with a complete value
NoLeadingValue(v) ==
    \/ v[1] \in WhiteSpace
    \/ v[1] \in Quotes /\ ~ClosedQuoted(v)

\* ------------------------------------------------------------ claims of the line parser (SpecLine)

\* C1: every alias parse_alias yields from a trimmed non-empty line has a
\* non-empty name without '=', at least one token, and only non-empty tokens
\* free of whitespace and of both quote characters.
C1_AliasWellFormed ==
    /\ pc # "panic"
    /\ \A a \in HeldAliases :
        /\ a.name # << >>
        /\ \A i \in 1 .. Len(a.name) : a.name[i] # EQ
        /\ Len(a.value) >= 1
        /\ \A t \in 1 .. Len(a.value) :
            /\ a.value[t] # << >>
            /\ \A i \in 1 .. Len(a.value[t]) :
                a.value[t][i] \notin WhiteSpace \cup Quotes

\* an accepted line with a bare value and a quote character behind it, where
\* the last token has to stop
C1_Witness ==
    /\ LineAccepted
    /\ HasValuePart(line)
    /\ ValuePart(line)[1] \notin Quotes
    /\ \E i \in 1 .. Len(ValuePart(line)) : ValuePart(line)[i] \in Quotes

\* C2 as stated: every line whose value part holds an embedded quote is
\* rejected: it is appended to the unparsable list and no alias is pushed.
C2_EmbeddedQuoteRejected ==
    (consumed # << >> /\ HasValuePart(line) /\ EmbeddedQuote(ValuePart(line)))
        => LineRejected

\* C2 amended: a line whose value part holds an embedded quote is rejected
\* exactly when its name is empty or its value part does not begin with a
\* complete value (it starts with whitespace, or it opens with a quote and the
\* text up to the next quote character is not a token list closed by the same
\* quote); every other such line is accepted, the quote left in the remainder.
C2_RejectedUnlessLeadingValue ==
    (consumed # << >> /\ HasValuePart(line) /\ EmbeddedQuote(ValuePart(line)))
        => IF NamePart(line) = << >> \/ NoLeadingValue(ValuePart(line))
           THEN LineRejected
           ELSE LineAccepted

\* a rejected line whose value opens with a quote and holds the other one inside
C2_Witness ==
    /\ consumed # << >>
    /\ HasValuePart(line)
    /\ NamePart(line) # << >>
    /\ EmbeddedQuote(ValuePart(line))
    /\ ValuePart(line)[1] = SQ
    /\ \E i \in 2 .. Len(ValuePart(line)) : ValuePart(line)[i] = DQ
    /\ LineRejected

\* the text between the outer quotes of v, v itself when it has none
Unquoted(v) == IF OuterPair(v) THEN SubSeq(v, 2, Len(v) - 1) ELSE v

\* the line l = name=TOKENS, name='TOKENS' or name="TOKENS", with the tokens
\* separated by runs of the characters in seps, parses to that name and those
\* tokens with nothing left over, and the alias is held under its first token
ParsesAsJoined(l, seps) ==
    (/\ HasValuePart(l)
     /\ NamePart(l) # << >>
     /\ TokenText(Unquoted(ValuePart(l)), seps))
        => LET r == parse_alias(l)
               want == NewAlias(NamePart(l), SplitWhitespace(Unquoted(ValuePart(l))))
           IN  /\ r.ok
               /\ r.rest = << >>
               /\ r.out = want
               /\ DOMAIN aliases = {want.value[1]}
               /\ aliases[want.value[1]] = <<want>>

\* C9 as stated: for tokens joined by whitespace, the bare, the single-quoted
\* and the double-quoted form are accepted with an empty remainder and yield
\* the alias of that name and exactly those tokens.
C9_ThreeFormsAgree ==
    (consumed # << >> /\ pc = "read") => ParsesAsJoined(line, WhiteSpace)

\* the same with the tokens joined by space, tab, carriage return or line feed
\* only, the whitespace multispace1 takes
C9_MultispaceJoined ==
    (consumed # << >> /\ pc = "read") => ParsesAsJoined(line, Multispace)

\* C10: the uncoloured line printed for an alias, trimmed and parsed again as
\* the driver does, is accepted with an empty remainder and yields the same
\* name and the same value.
C10_DisplayReparses ==
    ~in_color =>
        \A i \in 1 .. Len(out) :
            out[i].kind = "alias" =>
                LET r == parse_alias(Trim(out[i].text \o <<LF>>))
                IN  /\ r.ok
                    /\ r.rest = << >>
                    /\ r.out = out[i].alias

\* an uncoloured alias line of two tokens, printed for a line that was not
\* itself in the printed form
C10_Witness ==
    /\ ~in_color
    /\ pc = "done"
    /\ \E i \in 1 .. Len(out) :
        /\ out[i].kind = "alias"
        /\ Len(out[i].alias.value) = 2
        /\ out[i].text # <<SP, SP>> \o line

\* ------------------------------------------------------------ reference notions of a run

\* the line raw is not blank: some character of it is not whitespace
NonBlank(raw) == \E i \in 1 .. Len(raw) : raw[i] \notin WhiteSpace

\* the positions of the input read so far whose line is not blank
NonBlankAt == {i \in 1 .. Len(consumed) : NonBlank(consumed[i])}

\* the trimmed line l is one the parser rejects
IsRejected(l) == l # << >> /\ ~parse_alias(l).ok

\* the rejected lines of the input read so far, trimmed, in the order read
RejectedLines ==
    SelectSeq([i \in 1 .. Len(consumed) |-> Trim(consumed[i])], IsRejected)

HeaderKinds == {"group_header", "general_header", "unparsable_header"}

\* the position of the header line i is printed under (i itself for a header),
\* 0 when no header precedes it
HeaderAbove(i) ==
    LET H == {j \in 1 .. i : out[j].kind \in HeaderKinds}
    IN  IF H = {} THEN 0 ELSE CHOOSE j \in H : \A h \in H : h <= j

\* the section line i belongs to: 1 a command group, 2 general, 3 unparsable
SectionRank(i) ==
    LET h == HeaderAbove(i)
    IN  IF h = 0 THEN 0
        ELSE IF out[h].kind = "group_header" THEN 1
        ELSE IF out[h].kind = "general_header" THEN 2
        ELSE 3

\* the text holds the escape introducer ESC '['
HasEscape(text) == \E i \in 1 .. (Len(text) - 1) : text[i] = ESC /\ text[i + 1] = LB

\* ------------------------------------------------------------ claims of the run (Spec)

\* the two counts add up to the number of non-blank lines read
C3_Sum ==
    SumLen(aliases, DOMAIN aliases) + Len(error_aliases) = Cardinality(NonBlankAt)

\* a step that reads a line changes the counts as the line asks
C3_Step ==
    consumed' # consumed =>
        LET raw == consumed'[Len(consumed')]
            n == SumLen(aliases, DOMAIN aliases)
            n1 == SumLen(aliases', DOMAIN aliases')
        IN  IF NonBlank(raw)
            THEN \/ n1 = n + 1 /\ error_aliases' = error_aliases
                 \/ n1 = n /\ Len(error_aliases') = Len(error_aliases) + 1
            ELSE aliases' = aliases /\ error_aliases' = error_aliases

\* C3: at every point of the run the aliases held in the buckets plus the
\* rejected lines number the non-blank lines read so far; a blank line changes
\* neither count and a non-blank line raises exactly one of them by one.
C3_EveryLineCounted == []C3_Sum /\ [][C3_Step]_vars

\* four lines read: a blank one, two parsed ones and a rejected one
C3_Witness ==
    /\ pc = "read"
    /\ Len(consumed) = 4
    /\ Cardinality(NonBlankAt) = 3
    /\ SumLen(aliases, DOMAIN aliases) = 2
    /\ Len(error_aliases) = 1

RECURSIVE ParseEach(_)
\* what the parser makes of each of the lines, trimmed, in order
ParseEach(lines) ==
    IF lines = << >> THEN << >>
    ELSE <<parse_alias(Trim(Head(lines)))>> \o ParseEach(Tail(lines))

\* the output places every alias as the run's parse results ask: run[i] is the
\* parse result of the i-th line read
PlacedAsGrouped(run) ==
    LET parsed == {i \in 1 .. Len(consumed) : NonBlank(consumed[i]) /\ run[i].ok}
        count(c) == Cardinality({i \in parsed : run[i].out.value[1] = c})
        printed == {j \in 1 .. Len(out) : out[j].kind = "alias"}
    IN  /\ \A i \in 1 .. Len(out) :
            /\ out[i].kind = "alias" =>
                LET h == HeaderAbove(i)
                    c == out[i].alias.value[1]
                IN  /\ h # 0
                    /\ IF count(c) >= 2
                       THEN out[h].kind = "group_header" /\ out[h].title = c
                       ELSE out[h].kind = "general_header" /\ count(c) = 1
            /\ out[i].kind = "general_header" =>
                \E j \in parsed : count(run[j].out.value[1]) = 1
            /\ (out[i].kind = "group_header" /\ ~in_color) =>
                out[i].text = <<LB>> \o out[i].title \o <<RB>>
            /\ (out[i].kind = "general_header" /\ ~in_color) =>
                out[i].text = <<LB>> \o General \o <<RB>>
        /\ pc = "done" =>
            /\ Cardinality(printed) = Cardinality(parsed)
            /\ \A i \in parsed :
                Cardinality({j \in printed : out[j].alias = run[i].out})
                  = Cardinality({j \in parsed : run[j].out = run[i].out})

\* C4: every alias line stands under the header of its own first token when
\* two or more parsed aliases of the run share that token, and under the
\* general header when it is the only one; the general header is printed only
\* when some first token has a single alias; at the end every parsed alias has
\* been printed exactly once.
C4_PrintedOnceUnderOwnHeader ==
    (out # << >> \/ pc = "done") =>
        \A run \in {ParseEach(consumed)} : PlacedAsGrouped(run)

\* a finished run with a command group of two aliases and a general group
C4_Witness ==
    /\ pc = "done"
    /\ \E i \in 1 .. (Len(out) - 2), j \in 1 .. Len(out) :
        /\ out[i].kind = "group_header"
        /\ out[i + 1].kind = "alias"
        /\ out[i + 2].kind = "alias"
        /\ out[i + 1].alias.name # out[i + 2].alias.name
        /\ out[j].kind = "general_header"

\* C5 as stated: in every printed group the names of the alias lines are in
\* strictly ascending order.
C5_StrictlyAscending ==
    \A i \in 1 .. (Len(out) - 1) :
        (out[i].kind = "alias" /\ out[i + 1].kind = "alias")
            => StrLess(out[i].alias.name, out[i + 1].alias.name)

\* C5 amended: in every printed group no alias line has a name greater than
\* that of the line after it (equal names, which the grouper keeps, are
\* printed next to each other).
C5_NeverDescending ==
    \A i \in 1 .. (Len(out) - 1) :
        (out[i].kind = "alias" /\ out[i + 1].kind = "alias")
            => ~StrLess(out[i + 1].alias.name, out[i].alias.name)

\* a group of three lines, two of one name, read in descending order of name
C5_Witness ==
    /\ pc = "done"
    /\ \E i \in 1 .. (Len(out) - 2) :
        /\ out[i].kind = "alias"
        /\ out[i + 1].kind = "alias"
        /\ out[i + 2].kind = "alias"
        /\ out[i].alias.name = out[i + 1].alias.name
        /\ StrLess(out[i + 1].alias.name, out[i + 2].alias.name)
    /\ StrLess(NamePart(consumed[2]), NamePart(consumed[1]))

\* C6: nothing is written before end-of-input is read; then the command
\* groups, then the general section, then the unparsable header and the
\* rejected lines: no line of an earlier section follows one of a later
\* section, and the general and the unparsable header are written once at most.
C6_SectionsInOrder ==
    /\ pc \in {"read", "io_error", "panic"} => out = << >>
    /\ \A i \in 1 .. Len(out) :
        /\ SectionRank(i) # 0
        /\ out[i].kind = "alias" => SectionRank(i) \in {1, 2}
        /\ out[i].kind = "raw" => SectionRank(i) = 3
        /\ i < Len(out) => SectionRank(i) <= SectionRank(i + 1)
    /\ \A k \in {"general_header", "unparsable_header"} :
        Cardinality({i \in 1 .. Len(out) : out[i].kind = k}) <= 1

\* a finished run that wrote all three kinds of section
C6_Witness ==
    /\ pc = "done"
    /\ \E i, j, k \in 1 .. Len(out) :
        /\ out[i].kind = "group_header"
        /\ out[j].kind = "general_header"
        /\ out[k].kind = "raw"

\* the unparsable list is the rejected lines in the order read, and a finished
\* run has echoed exactly them, in that order, to standard error
C7_State ==
    /\ pc # "panic"
    /\ error_aliases = RejectedLines
    /\ pc = "done" =>
        SelectSeq(out, LAMBDA o : o.stream = "stderr")
            = [i \in 1 .. Len(error_aliases) |-> RawLine(error_aliases[i])]

\* a step that reads a rejected line keeps it and stays in the loop; only a
\* failed read ends the run with an error
C7_Step ==
    /\ (consumed' # consumed /\ IsRejected(Trim(consumed'[Len(consumed')]))) =>
        /\ pc' = "read"
        /\ aliases' = aliases
        /\ error_aliases' = Append(error_aliases, Trim(consumed'[Len(consumed')]))
    /\ pc' = "io_error" => consumed' = consumed

\* C7: a rejected line does not end the run: the step that reads it appends
\* the trimmed line to the unparsable list, leaves the buckets alone and stays
\* in the read loop; the list holds the rejected lines in the order read, and a
\* finished run has written them to standard error in that order.
C7_RejectedLinesKept == []C7_State /\ [][C7_Step]_vars

\* a finished run that rejected two different lines and parsed a third
C7_Witness ==
    /\ pc = "done"
    /\ Len(error_aliases) = 2
    /\ error_aliases[1] # error_aliases[2]
    /\ DOMAIN aliases # {}

\* C8 as stated: without colour, no line of either stream holds ESC '['.
C8_NoEscapeAnywhere ==
    ~in_color => \A i \in 1 .. Len(out) : ~HasEscape(out[i].text)

\* C8 amended: without colour the program adds no escape sequence of its own:
\* the general and the unparsable header hold no ESC, and a line of either
\* stream holds ESC '[' only when a line of the input holds it.
C8_NoEscapeAdded ==
    ~in_color =>
        \A i \in 1 .. Len(out) :
            /\ out[i].kind \in {"general_header", "unparsable_header"} =>
                \A j \in 1 .. Len(out[i].text) : out[i].text[j] # ESC
            /\ HasEscape(out[i].text) =>
                \E j \in 1 .. Len(consumed) : HasEscape(consumed[j])

\* an uncoloured finished run whose input held ESC '[' in a rejected line, with
\* an alias line and both fixed headers written
C8_Witness ==
    /\ ~in_color
    /\ pc = "done"
    /\ \E i, j, k, l \in 1 .. Len(out) :
        /\ out[i].kind = "raw" /\ HasEscape(out[i].text)
        /\ out[j].kind = "alias" /\ ~HasEscape(out[j].text)
        /\ out[k].kind = "general_header"
        /\ out[l].kind = "unparsable_header"
====
